---- MODULE Spec2Model ----
(***************************************************************************)
(* Package gopool of icub3d/gop: a GoPool of worker goroutines fed either  *)
(* by a ManagedSource (a goroutine that owns a Sourcer, here the           *)
(* PriorityQueue) or by a raw channel, all stopped by a shared context.    *)
(*                                                                         *)
(* Channels are unbuffered: a send and its receive are one step.  A select *)
(* with several ready cases takes any one of them (Go gives none of them   *)
(* priority), also once ctx.Done() is closed.  A task is named by the      *)
(* order in which its send completed: task n is the n-th task accepted.    *)
(*                                                                         *)
(* New starts its workers before it calls p.wg.Add: a worker that reaches  *)
(* p.wg.Done() first drives the counter negative, which panics and ends    *)
(* the process; no step follows a panic.                                   *)
(***************************************************************************)
EXTENDS Integers, Sequences, FiniteSets, TLC

\* ---------------------------------------------------------------- bounds
NumTasks == 3
NumWorkers == 2
MaxWakeups == 1
MaxAdds == 5

\* The priorities producers give to their tasks (TestNewSource uses 5, 7, 10).
Priorities == {5, 7, 10}

Workers == 1..NumWorkers
TaskIds == 1..NumTasks

\* The modes with a GoPool, those whose pool reads a plain channel, and those
\* with a managed source.
PoolModes == {"managed", "raw", "stop"}
RawModes == {"raw", "stop"}
SourceModes == {"managed", "source"}

VARIABLES
    mode,         \* "managed": pool reads ManagedSource.Source; "raw": pool reads a plain channel; "pq": a bare PriorityQueue;
                  \* "stop": the pool with a stop channel, on a plain channel; "source": NewSource, the managed source with a stop channel
    cancelled,    \* ctx.Done() is closed; "stop": p.stop is closed; "source": a sender waits in "stop <- done" or has been received
    sent,         \* number of tasks whose send (or direct Add) has completed
    q,            \* PriorityQueue.q, the heap array (Go index i is q[i+1])
    top,          \* the managed goroutine's held task (Nil when none)
    msPC,         \* managed goroutine: "pull" (lines 76-86), "select" (line 87), "exit" (line 122), "done"; "none" without one
    addCh,        \* add channel: "open", "closed", "nil" (closure observed, add = nil)
    wakeupCh,     \* wakeup channel: "open", "closed", "nil"
    wakeups,      \* wake-up signals sent so far
    msWg,         \* the ManagedSource's WaitGroup counter; "source": 1 while the channel sent on stop is open, 0 once closed
    msWaitRet,    \* ManagedSource.Wait() has returned; "source": the caller's "<-done" has returned
    wpc,          \* worker: "wait" (at the select), "run" (inside t.Run), "done"
    wtask,        \* the task a worker is running
    wg,           \* GoPool.wg counter
    registered,   \* New has executed p.wg.Add(goroutines)
    panicked,     \* the process died of "sync: negative WaitGroup counter"
    poolWaitRet,  \* GoPool.Wait() has returned; "stop": Stop() has returned
    srcClosed,    \* raw mode: the inbound channel is closed
    started,      \* started[t]: number of times t.Run was entered
    finished,     \* finished[t]: number of times t.Run returned
    delivered,    \* history: ids of the tasks sent on ManagedSource.Source, in order
    sincePull,    \* history: ids passed to Sourcer.Add by the add case since the last Sourcer.Next
    atCancel,     \* history: where the tasks were when cancel() was called (see AtCancel)
    atStop,       \* history, "stop": the tasks that were running when Stop() was called
    stopCh,       \* "source": the stop channel: "idle", "sending" (a caller waits in "stop <- done"), "received"
    doneCh,       \* "source": the channel sent on stop: "open" or "closed"
    returned,     \* history, "pq": the ids of the tasks that q.Next() has returned and that were not passed back
    woken,        \* history: the managed goroutine is back at the head of its loop from the receipt of a wake-up signal
    pulled,       \* history: ids of the tasks Sourcer.Next returned to the managed goroutine, in order
    atClose,      \* history: the workers blocked at their select when close(src) was called
    late,         \* history: after cancel() the managed goroutine completed a case of its select other than ctx.Done()
    ret           \* "pq" mode: result of the last PriorityQueue.Next

vars == <<mode, cancelled, sent, q, top, msPC, addCh, wakeupCh, wakeups, msWg,
          msWaitRet, wpc, wtask, wg, registered, panicked, poolWaitRet,
          srcClosed, started, finished, delivered, sincePull, atCancel, atStop,
          stopCh, doneCh, returned, woken, pulled, atClose, late, ret>>

\* ------------------------------------------------------------ task values
\* A nil Task.
Nil == [id |-> 0, pt |-> FALSE, p |-> 0]

\* A Task that is no PriorityTask (tt, sct in the tests).
BareTask(n) == [id |-> n, pt |-> FALSE, p |-> 0]

\* NewPriorityTask: a pt wrapping task t with the given priority.
NewPriorityTask(t, priority) == [id |-> t.id, pt |-> TRUE, p |-> priority]

\* The values a producer may hand in as its n-th task.
NewTasks(n) == {BareTask(n)} \cup {NewPriorityTask(BareTask(n), pr) : pr \in Priorities}

\* ------------------------------------------------- pq and container/heap
\* Faulty variant of Less: the comparison reversed (a min-heap).
LessFlipped(h, i, j) == h[i + 1].p < h[j + 1].p

\* pq.Less: higher priority first.
Less(h, i, j) == h[i + 1].p > h[j + 1].p

\* pq.Swap
Swap(h, i, j) == [h EXCEPT ![i + 1] = h[j + 1], ![j + 1] = h[i + 1]]

\* Go's (j - 1) / 2 truncates toward zero: it is 0 for j = 0.
Parent(j) == IF j = 0 THEN 0 ELSE (j - 1) \div 2

RECURSIVE up(_, _)
\* heap.up, as called by heap.Push
up(h, j) ==
    LET i == Parent(j) IN
    IF i = j \/ ~Less(h, j, i) THEN h ELSE up(Swap(h, i, j), i)

RECURSIVE down(_, _, _)
\* heap.down, as called by heap.Pop
down(h, i, n) ==
    LET j1 == 2 * i + 1 IN
    IF j1 >= n THEN h
    ELSE LET j2 == j1 + 1
             j  == IF j2 < n /\ Less(h, j2, j1) THEN j2 ELSE j1
         IN IF ~Less(h, j, i) THEN h ELSE down(Swap(h, i, j), j, n)

\* Faulty variant of heapPush: the new element is not sifted up.
heapPushNoUp(h, x) == Append(h, x)

\* heap.Push(q, x): pq.Push appends, then up(len-1).
heapPush(h, x) == up(Append(h, x), Len(h))

\* heap.Pop(q): Swap(0, n), down(0, n), then pq.Pop takes the last element.
\* The array before pq.Pop cuts it:
heapPopArray(h) == LET n == Len(h) - 1 IN down(Swap(h, 0, n), 0, n)

\* Faulty variant of PriorityQueueNext: pq.Pop called without heap.Pop.
PriorityQueueNextRaw(h) ==
    IF Len(h) < 1 THEN [task |-> Nil, q |-> h]
    ELSE [task |-> h[Len(h)], q |-> SubSeq(h, 1, Len(h) - 1)]

\* Faulty variant of PriorityQueueNext: the task inside the PriorityTask is
\* returned, without its priority.
PriorityQueueNextUnwrapped(h) ==
    IF Len(h) < 1 THEN [task |-> Nil, q |-> h]
    ELSE [task |-> BareTask(heapPopArray(h)[Len(h)].id),
          q |-> SubSeq(heapPopArray(h), 1, Len(h) - 1)]

\* Faulty variant of PriorityQueueNext: the first entry is returned and
\* left in the queue.
PriorityQueueNextPeek(h) ==
    IF Len(h) < 1 THEN [task |-> Nil, q |-> h]
    ELSE [task |-> h[1], q |-> h]

\* Faulty variant of PriorityQueueNext: the length test is off by one.
PriorityQueueNextOffByOne(h) ==
    IF Len(h) < 2 THEN [task |-> Nil, q |-> h]
    ELSE [task |-> heapPopArray(h)[Len(h)],
          q |-> SubSeq(heapPopArray(h), 1, Len(h) - 1)]

\* PriorityQueue.Next: the task returned (Nil when the queue is empty) and
\* the queue it leaves.
PriorityQueueNext(h) ==
    IF Len(h) < 1 THEN [task |-> Nil, q |-> h]
    ELSE [task |-> heapPopArray(h)[Len(h)],
          q |-> SubSeq(heapPopArray(h), 1, Len(h) - 1)]

\* Faulty variant of PriorityQueueAdd: every task is wrapped with priority 0.
PriorityQueueAddRewrap(h, t) == heapPush(h, NewPriorityTask(t, 0))

\* PriorityQueue.Add: a PriorityTask is pushed as is, any other task is
\* wrapped with priority 0.
PriorityQueueAdd(h, t) ==
    IF t.pt THEN heapPush(h, t) ELSE heapPush(h, NewPriorityTask(t, 0))

\* ------------------------------------------------------------------ Init
InitCommon ==
    /\ cancelled = FALSE
    /\ sent = 0
    /\ q = <<>>
    /\ top = Nil
    /\ addCh = "open"
    /\ wakeupCh = "open"
    /\ wakeups = 0
    /\ msWaitRet = FALSE
    /\ wtask = [w \in Workers |-> Nil]
    /\ wg = 0
    /\ panicked = FALSE
    /\ poolWaitRet = FALSE
    /\ srcClosed = FALSE
    /\ started = [t \in TaskIds |-> 0]
    /\ finished = [t \in TaskIds |-> 0]
    /\ delivered = <<>>
    /\ sincePull = {}
    /\ atCancel = "notfired"
    /\ atStop = {}
    /\ stopCh = "idle"
    /\ doneCh = "open"
    /\ woken = FALSE
    /\ returned = {}
    /\ pulled = <<>>
    /\ atClose = {}
    /\ late = FALSE
    /\ ret = Nil

\* NewManagedSource has returned (its goroutine is at the top of its loop,
\* wg.Add(1) done) and New has started its workers but not yet executed
\* p.wg.Add(goroutines); or the pool reads a raw channel and there is no
\* ManagedSource.
Init ==
    /\ InitCommon
    /\ mode \in {"managed", "raw"}
    /\ msPC = IF mode = "managed" THEN "pull" ELSE "none"
    /\ msWg = IF mode = "managed" THEN 1 ELSE 0
    /\ wpc = [w \in Workers |-> "wait"]
    /\ registered = FALSE

\* ------------------------------------------------------- sync.WaitGroup
\* wg.Done() on counter c: the new counter; a negative counter panics.
WgDone(c) == c - 1

\* Faulty variant of NewAddDelta: one worker is not registered.
NewAddDeltaShort == NumWorkers - 1

\* New: p.wg.Add(goroutines)
NewAddDelta == NumWorkers

\* ----------------------------------------------------- the environment
\* New, after the go statements: p.wg.Add(goroutines), then New returns.
NewAdd ==
    /\ ~panicked
    /\ mode \in PoolModes
    /\ ~registered
    /\ wg' = wg + NewAddDelta
    /\ registered' = TRUE
    /\ UNCHANGED <<mode, cancelled, sent, q, top, msPC, addCh, wakeupCh,
                   wakeups, msWg, msWaitRet, wpc, wtask, panicked, poolWaitRet,
                   srcClosed, started, finished, delivered, sincePull,
                   atCancel, atStop, stopCh, doneCh, returned, woken, ret,
                   pulled, atClose, late>>

\* Number of tasks held by the ManagedSource: in the Sourcer or in top.
Queued == Len(q) + (IF top = Nil THEN 0 ELSE 1)

\* What cancel() finds: "unsent" when some of the NumTasks sends have not
\* completed, "queued" when all have and the ManagedSource still holds some
\* of the tasks, "drained" when all have and it holds none.
AtCancel ==
    IF sent < NumTasks THEN "unsent"
    ELSE IF Queued > 0 THEN "queued" ELSE "drained"

\* cancel(): closes ctx.Done().
Cancel ==
    /\ ~panicked
    /\ mode \in {"managed", "raw"}
    /\ ~cancelled
    /\ cancelled' = TRUE
    /\ atCancel' = AtCancel
    /\ UNCHANGED <<mode, sent, q, top, msPC, addCh, wakeupCh, wakeups, msWg,
                   msWaitRet, wpc, wtask, wg, registered, panicked,
                   poolWaitRet, srcClosed, started, finished, delivered,
                   sincePull, atStop, stopCh, doneCh, returned, woken, ret,
                   pulled, atClose, late>>

\* close(ms.Add) by the producer side; nothing is sent on it afterwards.
CloseAdd ==
    /\ ~panicked
    /\ mode = "managed"
    /\ addCh = "open"
    /\ addCh' = "closed"
    /\ UNCHANGED <<mode, cancelled, sent, q, top, msPC, wakeupCh, wakeups,
                   msWg, msWaitRet, wpc, wtask, wg, registered, panicked,
                   poolWaitRet, srcClosed, started, finished, delivered,
                   sincePull, atCancel, atStop, stopCh, doneCh, returned,
                   woken, ret, pulled, atClose, late>>

\* close(wakeup)
CloseWakeup ==
    /\ ~panicked
    /\ mode = "managed"
    /\ wakeupCh = "open"
    /\ wakeupCh' = "closed"
    /\ UNCHANGED <<mode, cancelled, sent, q, top, msPC, addCh, wakeups, msWg,
                   msWaitRet, wpc, wtask, wg, registered, panicked,
                   poolWaitRet, srcClosed, started, finished, delivered,
                   sincePull, atCancel, atStop, stopCh, doneCh, returned,
                   woken, ret, pulled, atClose, late>>

\* raw mode: close(src)
CloseSrc ==
    /\ ~panicked
    /\ mode \in RawModes
    /\ ~srcClosed
    /\ srcClosed' = TRUE
    /\ atClose' = {w \in Workers : wpc[w] = "wait"}
    /\ UNCHANGED <<mode, cancelled, sent, q, top, msPC, addCh, wakeupCh,
                   wakeups, msWg, msWaitRet, wpc, wtask, wg, registered,
                   panicked, poolWaitRet, started, finished, delivered,
                   sincePull, atCancel, atStop, stopCh, doneCh, returned,
                   woken, ret, pulled, late>>

\* The priority of the tasks that reach the Sourcer without passing through
\* the add channel.
SidePriority == 1

\* "The source may be empty but is later filled" (NewManagedSource's doc):
\* while the managed goroutine waits with nothing held, a task is stored in
\* the Sourcer by its owner, not through the add channel.
SideAdd ==
    /\ ~panicked
    /\ mode = "managed"
    /\ msPC = "select"
    /\ top = Nil
    /\ sent < NumTasks
    /\ q' = PriorityQueueAdd(q, NewPriorityTask(BareTask(sent + 1), SidePriority))
    /\ sent' = sent + 1
    /\ UNCHANGED <<mode, cancelled, top, msPC, addCh, wakeupCh, wakeups, msWg,
                   msWaitRet, wpc, wtask, wg, registered, panicked,
                   poolWaitRet, srcClosed, started, finished, delivered,
                   sincePull, atCancel, atStop, stopCh, doneCh, returned,
                   woken, ret, pulled, atClose, late>>

\* Stop-channel pool, Stop() on the pool New returned: close(p.stop).
StopClose ==
    /\ ~panicked
    /\ mode = "stop"
    /\ registered
    /\ ~cancelled
    /\ cancelled' = TRUE
    /\ atStop' = {wtask[w].id : w \in {v \in Workers : wpc[v] = "run"}}
    /\ UNCHANGED <<mode, sent, q, top, msPC, addCh, wakeupCh, wakeups, msWg,
                   msWaitRet, wpc, wtask, wg, registered, panicked,
                   poolWaitRet, srcClosed, started, finished, delivered,
                   sincePull, atCancel, stopCh, doneCh, returned, woken, ret,
                   pulled, atClose, late>>

\* ManagedSource.Wait(): ms.wg.Wait() returns once the counter is zero.
MSWait ==
    /\ ~panicked
    /\ mode = "managed"
    /\ ~msWaitRet
    /\ msWg = 0
    /\ msWaitRet' = TRUE
    /\ UNCHANGED <<mode, cancelled, sent, q, top, msPC, addCh, wakeupCh,
                   wakeups, msWg, wpc, wtask, wg, registered, panicked,
                   poolWaitRet, srcClosed, started, finished, delivered,
                   sincePull, atCancel, atStop, stopCh, doneCh, returned,
                   woken, ret, pulled, atClose, late>>

\* GoPool.Wait(), called on the pool New returned: p.wg.Wait().  In the
\* stop-channel pool p.wg.Wait() is the second statement of Stop().
PoolWait ==
    /\ ~panicked
    /\ registered
    /\ mode = "stop" => cancelled
    /\ ~poolWaitRet
    /\ wg = 0
    /\ poolWaitRet' = TRUE
    /\ UNCHANGED <<mode, cancelled, sent, q, top, msPC, addCh, wakeupCh,
                   wakeups, msWg, msWaitRet, wpc, wtask, wg, registered,
                   panicked, srcClosed, started, finished, delivered,
                   sincePull, atCancel, atStop, stopCh, doneCh, returned,
                   woken, ret, pulled, atClose, late>>

\* ------------------------------------------- the ManagedSource goroutine
\* Faulty variant of Pull: a held task is put back and the maximum taken.
PullDisplacing(h, t) ==
    LET h2 == IF t = Nil THEN h ELSE PriorityQueueAdd(h, t)
    IN [top |-> PriorityQueueNext(h2).task, q |-> PriorityQueueNext(h2).q]

\* Faulty variant of Pull: s.Next() is not called.
PullNever(h, t) == [top |-> t, q |-> h]

\* Faulty variant of Pull: s.Next() is called even when a task is held.
PullAlways(h, t) ==
    [top |-> PriorityQueueNext(h).task, q |-> PriorityQueueNext(h).q]

\* Lines 76-78: "if top == nil { top = s.Next() }": top and the Sourcer
\* after the statement.
Pull(h, t) ==
    IF t = Nil
    THEN [top |-> PriorityQueueNext(h).task, q |-> PriorityQueueNext(h).q]
    ELSE [top |-> t, q |-> h]

\* late after one more case of the select, other than ctx.Done(), completed.
Later == late \/ cancelled

\* Faulty variant of Src: the send case is always on source.
SrcAlways(t) == "source"

\* Lines 80-86: src is source when a task is held and nil otherwise; a send
\* on a nil channel never completes.
Src(t) == IF t # Nil THEN "source" ELSE "nil"

\* Lines 76-86: get the top task if there is none; src is source exactly
\* when top is not nil afterwards.
MSPull ==
    /\ ~panicked
    /\ msPC = "pull"
    /\ top' = Pull(q, top).top
    /\ q' = Pull(q, top).q
    /\ sincePull' = IF top = Nil THEN {} ELSE sincePull
    /\ pulled' = IF top = Nil /\ Pull(q, top).top # Nil
                  THEN Append(pulled, Pull(q, top).top.id) ELSE pulled
    /\ msPC' = "select"
    /\ woken' = FALSE
    /\ UNCHANGED <<mode, cancelled, sent, addCh, wakeupCh, wakeups, msWg,
                   msWaitRet, wpc, wtask, wg, registered, panicked,
                   poolWaitRet, srcClosed, started, finished, delivered,
                   atCancel, atStop, stopCh, doneCh, returned, ret, atClose,
                   late>>

\* Lines 88, 94-98: a wake-up signal is received (the sender's send completes).
MSWakeup ==
    /\ ~panicked
    /\ msPC = "select"
    /\ wakeupCh = "open"
    /\ wakeups < MaxWakeups
    /\ wakeups' = wakeups + 1
    /\ msPC' = "pull"
    /\ woken' = TRUE
    /\ late' = Later
    /\ UNCHANGED <<mode, cancelled, sent, q, top, addCh, wakeupCh, msWg,
                   msWaitRet, wpc, wtask, wg, registered, panicked,
                   poolWaitRet, srcClosed, started, finished, delivered,
                   sincePull, atCancel, atStop, stopCh, doneCh, returned, ret,
                   pulled, atClose>>

\* Faulty variant of AfterClosed: the channel variable is left as it is.
AfterClosedKept == "closed"

\* Lines 90 and 101: "wakeup = nil", "add = nil": the case of a nil channel
\* is never ready.
AfterClosed == "nil"

\* Faulty variant of OnClosed: a closed channel ends the goroutine.
OnClosedReturn == "exit"

\* Lines 89-93 and 100-105: after "wakeup = nil" or "add = nil" the case
\* ends and the loop goes round again.
OnClosed == "pull"

\* Lines 88-93: the receive on the closed wakeup channel; wakeup = nil.
MSWakeupClosed ==
    /\ ~panicked
    /\ msPC = "select"
    /\ wakeupCh = "closed"
    /\ wakeupCh' = AfterClosed
    /\ msPC' = OnClosed
    /\ late' = Later
    /\ UNCHANGED <<mode, cancelled, sent, q, top, addCh, wakeups, msWg,
                   msWaitRet, wpc, wtask, wg, registered, panicked,
                   poolWaitRet, srcClosed, started, finished, delivered,
                   sincePull, atCancel, atStop, stopCh, doneCh, returned,
                   woken, ret, pulled, atClose>>

\* Faulty variant of Accepting: a buffered add channel, on which a send
\* completes wherever the goroutine is.
AcceptingBuffered == msPC \in {"pull", "select", "exit", "done"}

\* Lines 68, 87, 99: add is unbuffered and the goroutine receives from it
\* only in its select: a send on add completes only there.
Accepting == msPC = "select"

\* Faulty variant of AddCase: the task received is not stored.
AddCaseDropped(h, t) == h

\* Lines 106-107 of the add case: "if t != nil { s.Add(t) }", t being the
\* value received, nil when the channel was found closed.
AddCase(h, t) == IF t # Nil THEN PriorityQueueAdd(h, t) ELSE h

\* Lines 99, 106-111: a producer's send on add completes; s.Add(t).
MSAdd ==
    /\ ~panicked
    /\ Accepting
    /\ addCh = "open"
    /\ sent < NumTasks
    /\ \E t \in NewTasks(sent + 1) :
           /\ q' = AddCase(q, t)
           /\ sincePull' = sincePull \cup {t.id}
    /\ sent' = sent + 1
    /\ msPC' = "pull"
    /\ late' = Later
    /\ UNCHANGED <<mode, cancelled, top, addCh, wakeupCh, wakeups, msWg,
                   msWaitRet, wpc, wtask, wg, registered, panicked,
                   poolWaitRet, srcClosed, started, finished, delivered,
                   atCancel, atStop, stopCh, doneCh, returned, woken, ret,
                   pulled, atClose>>

\* Lines 99-107 with t == nil: a producer sent nil on the add channel; "if
\* t != nil" skips s.Add and the loop goes round.
MSAddNil ==
    /\ ~panicked
    /\ Accepting
    /\ addCh = "open"
    /\ msPC' = "pull"
    /\ q' = AddCase(q, Nil)
    /\ late' = Later
    /\ UNCHANGED <<mode, cancelled, sent, top, addCh, wakeupCh, wakeups, msWg,
                   msWaitRet, wpc, wtask, wg, registered, panicked,
                   poolWaitRet, srcClosed, started, finished, delivered,
                   sincePull, atCancel, atStop, stopCh, doneCh, returned,
                   woken, ret, pulled, atClose>>

\* Lines 99-105: the receive on the closed add channel: t is nil, add = nil.
MSAddClosed ==
    /\ ~panicked
    /\ msPC = "select"
    /\ addCh = "closed"
    /\ addCh' = AfterClosed
    /\ msPC' = OnClosed
    /\ q' = AddCase(q, Nil)
    /\ late' = Later
    /\ UNCHANGED <<mode, cancelled, sent, top, wakeupCh, wakeups, msWg,
                   msWaitRet, wpc, wtask, wg, registered, panicked,
                   poolWaitRet, srcClosed, started, finished, delivered,
                   sincePull, atCancel, atStop, stopCh, doneCh, returned,
                   woken, ret, pulled, atClose>>

\* Faulty variant of Requeue: the held task is not added back.
RequeueDropped(h, t) == h

\* Lines 116-121: "if top != nil { s.Add(top) }".
Requeue(h, t) == IF t # Nil THEN PriorityQueueAdd(h, t) ELSE h

\* Faulty variant of DoneReady: an edge-triggered signal, lost once the
\* goroutine has completed another case after it fired.
DoneReadyOnce == cancelled /\ ~late

\* Line 112: "<-ctx.Done()" is ready at every select once cancel() has been
\* called: a closed channel stays readable.
DoneReady == cancelled

\* Lines 112-121: ctx.Done() is ready; the held task is added back.
MSCancel ==
    /\ ~panicked
    /\ msPC = "select"
    /\ DoneReady
    /\ q' = Requeue(q, top)
    /\ msPC' = "exit"
    /\ UNCHANGED <<mode, cancelled, sent, top, addCh, wakeupCh, wakeups, msWg,
                   msWaitRet, wpc, wtask, wg, registered, panicked,
                   poolWaitRet, srcClosed, started, finished, delivered,
                   sincePull, atCancel, atStop, stopCh, doneCh, returned,
                   woken, ret, pulled, atClose, late>>

\* Lines 122-123: wg.Done() and return; the goroutine's locals, top among
\* them, are gone.
MSDone ==
    /\ ~panicked
    /\ msPC = "exit"
    /\ msWg' = WgDone(msWg)
    /\ top' = Nil
    /\ msPC' = "done"
    /\ UNCHANGED <<mode, cancelled, sent, q, addCh, wakeupCh, wakeups,
                   msWaitRet, wpc, wtask, wg, registered, panicked,
                   poolWaitRet, srcClosed, started, finished, delivered,
                   sincePull, atCancel, atStop, stopCh, doneCh, returned,
                   woken, ret, pulled, atClose, late>>

\* Faulty variant of Receiving: a worker receives in the middle of a Run.
ReceivingMidTask(w) == wpc[w] \in {"wait", "run"}

\* gopool.go 94, 101: a worker receives from p.src only at its select, which
\* it reaches again when t.Run has returned (line 111, end of the loop body).
Receiving(w) == wpc[w] = "wait"

\* Faulty variant of AfterSend: top is not cleared.
AfterSendKept(t) == t

\* Line 128: top = nil after the send.
AfterSend(t) == Nil

\* Lines 124-128 with gopool.go 101, 107-111: "src <- top" meets worker w's
\* receive; the worker enters t.Run.
MSDeliver(w) ==
    /\ ~panicked
    /\ mode \in SourceModes
    /\ msPC = "select"
    /\ Src(top) = "source"
    /\ Receiving(w)
    /\ wtask' = [wtask EXCEPT ![w] = top]
    /\ wpc' = [wpc EXCEPT ![w] = "run"]
    /\ started' = [started EXCEPT ![top.id] = @ + 1]
    /\ delivered' = Append(delivered, top.id)
    /\ top' = AfterSend(top)
    /\ msPC' = "pull"
    /\ late' = Later
    /\ UNCHANGED <<mode, cancelled, sent, q, addCh, wakeupCh, wakeups, msWg,
                   msWaitRet, wg, registered, panicked, poolWaitRet, srcClosed,
                   finished, sincePull, atCancel, atStop, stopCh, doneCh,
                   returned, woken, ret, pulled, atClose>>

\* ------------------------------------- NewSource: the stop-channel variant
\* src/gopool/sources.go: the loop of part_007 with "case c := <-stop" in
\* the place of "case <-ctx.Done()"; Pull and the wake-up, add and send
\* cases are the same statements.

\* TestNewSource 162-164: done := make(chan struct{}); stop <- done.  The
\* stop channel is unbuffered: the caller waits in the send until the
\* goroutine's select receives it.
StopSend ==
    /\ mode = "source"
    /\ stopCh = "idle"
    /\ stopCh' = "sending"
    /\ UNCHANGED <<mode, cancelled, sent, q, top, msPC, addCh, wakeupCh,
                   wakeups, msWg, msWaitRet, wpc, wtask, wg, registered,
                   panicked, poolWaitRet, srcClosed, started, finished,
                   delivered, sincePull, atCancel, atStop, doneCh, returned,
                   woken, pulled, atClose, late, ret>>

\* sources.go 92-101: the select receives c from stop; the held task is
\* added back.
SourceStop ==
    /\ mode = "source"
    /\ msPC = "select"
    /\ stopCh = "sending"
    /\ stopCh' = "received"
    /\ q' = Requeue(q, top)
    /\ msPC' = "exit"
    /\ UNCHANGED <<mode, cancelled, sent, top, addCh, wakeupCh, wakeups, msWg,
                   msWaitRet, wpc, wtask, wg, registered, panicked,
                   poolWaitRet, srcClosed, started, finished, delivered,
                   sincePull, atCancel, atStop, doneCh, returned, woken,
                   pulled, atClose, late, ret>>

\* sources.go 102-105: close(c) and return; the goroutine's locals are gone.
SourceClose ==
    /\ mode = "source"
    /\ msPC = "exit"
    /\ doneCh' = "closed"
    /\ top' = Nil
    /\ msPC' = "done"
    /\ UNCHANGED <<mode, cancelled, sent, q, addCh, wakeupCh, wakeups, msWg,
                   msWaitRet, wpc, wtask, wg, registered, panicked,
                   poolWaitRet, srcClosed, started, finished, delivered,
                   sincePull, atCancel, atStop, stopCh, pulled, atClose, late,
                   returned, woken, ret>>

\* TestNewSource 165: "<-done" returns once done is closed.
SourceWait ==
    /\ mode = "source"
    /\ ~msWaitRet
    /\ doneCh = "closed"
    /\ msWaitRet' = TRUE
    /\ UNCHANGED <<mode, cancelled, sent, q, top, msPC, addCh, wakeupCh,
                   wakeups, msWg, wpc, wtask, wg, registered, panicked,
                   poolWaitRet, srcClosed, started, finished, delivered,
                   sincePull, atCancel, atStop, stopCh, doneCh, returned,
                   woken, pulled, atClose, late, ret>>

\* ------------------------------------------------------ GoPool.worker
\* Faulty variant of StopPoint: the worker also stops in the middle of a Run.
StopPointMidTask(w) == wpc[w] \in {"wait", "run"}

\* A worker looks at ctx.Done() and p.src only at its select (line 94).
StopPoint(w) == wpc[w] = "wait"

\* gopool.go 95-100: ctx.Done() is ready: p.wg.Done(), return.
WorkerStop(w) ==
    /\ ~panicked
    /\ StopPoint(w)
    /\ cancelled
    /\ wg' = WgDone(wg)
    /\ panicked' = (WgDone(wg) < 0)
    /\ wpc' = [wpc EXCEPT ![w] = "done"]
    /\ UNCHANGED <<mode, cancelled, sent, q, top, msPC, addCh, wakeupCh,
                   wakeups, msWg, msWaitRet, wtask, registered, poolWaitRet,
                   srcClosed, started, finished, delivered, sincePull,
                   atCancel, atStop, stopCh, doneCh, returned, woken, ret,
                   pulled, atClose, late>>

\* gopool.go 101, 107-111, raw mode: a producer's send on src meets worker
\* w's receive; the worker enters t.Run.
RawSend(w) ==
    /\ ~panicked
    /\ mode \in RawModes
    /\ ~srcClosed
    /\ Receiving(w)
    /\ sent < NumTasks
    /\ sent' = sent + 1
    /\ wtask' = [wtask EXCEPT ![w] = BareTask(sent + 1)]
    /\ wpc' = [wpc EXCEPT ![w] = "run"]
    /\ started' = [started EXCEPT ![sent + 1] = @ + 1]
    /\ UNCHANGED <<mode, cancelled, q, top, msPC, addCh, wakeupCh, wakeups,
                   msWg, msWaitRet, wg, registered, panicked, poolWaitRet,
                   srcClosed, finished, delivered, sincePull, atCancel, atStop,
                   stopCh, doneCh, returned, woken, ret, pulled, atClose,
                   late>>

\* gopool.go 101-106: the receive on the closed src: p.wg.Done(), return.
WorkerClosed(w) ==
    /\ ~panicked
    /\ mode \in RawModes
    /\ srcClosed
    /\ StopPoint(w)
    /\ wg' = WgDone(wg)
    /\ panicked' = (WgDone(wg) < 0)
    /\ wpc' = [wpc EXCEPT ![w] = "done"]
    /\ UNCHANGED <<mode, cancelled, sent, q, top, msPC, addCh, wakeupCh,
                   wakeups, msWg, msWaitRet, wtask, registered, poolWaitRet,
                   srcClosed, started, finished, delivered, sincePull,
                   atCancel, atStop, stopCh, doneCh, returned, woken, ret,
                   pulled, atClose, late>>

\* Faulty variant of RunSourcer: the worker puts the task it ran back.
RunSourcerRequeue(h, t) == PriorityQueueAdd(h, t)

\* gopool.go 111: t.Run(p.ctx) gets the context only, and the worker holds
\* no reference to the Sourcer: the Sourcer after a Run of t.
RunSourcer(h, t) == h

\* Faulty variant of EndsWorker: an error ends the worker in every pool.
EndsWorkerAlways(m, err) == err

\* gopool.go 111: Run has no result, the worker goes on whatever the task
\* did.  Stop-channel pool, part_008 114-119: a Run that returns an error
\* (ErrStopped, or any other) ends its worker.
EndsWorker(m, err) == m = "stop" /\ err

\* Faulty variant of ErrDone: the error path releases the WaitGroup twice.
ErrDoneTwice(c) == WgDone(WgDone(c))

\* part_008 117: p.wg.Done() of the worker whose task returned an error.
ErrDone(c) == WgDone(c)

\* gopool.go 111-116, part_008 114-123: t.Run returns, with an error or
\* without; back to the select, or p.wg.Done() and return.
WorkerFinish(w) ==
    /\ ~panicked
    /\ wpc[w] = "run"
    /\ finished' = [finished EXCEPT ![wtask[w].id] = @ + 1]
    /\ wtask' = [wtask EXCEPT ![w] = Nil]
    /\ q' = RunSourcer(q, wtask[w])
    /\ \E err \in BOOLEAN :
           IF EndsWorker(mode, err)
           THEN /\ wpc' = [wpc EXCEPT ![w] = "done"]
                /\ wg' = ErrDone(wg)
                /\ panicked' = (ErrDone(wg) < 0)
           ELSE /\ wpc' = [wpc EXCEPT ![w] = "wait"]
                /\ UNCHANGED <<wg, panicked>>
    /\ UNCHANGED <<mode, cancelled, sent, top, msPC, addCh, wakeupCh, wakeups,
                   msWg, msWaitRet, registered, poolWaitRet, srcClosed,
                   started, delivered, sincePull, atCancel, atStop, stopCh,
                   doneCh, returned, woken, ret, pulled, atClose, late>>

\* ------------------------------------------- a PriorityQueue used directly
\* TestPriorityQueue: q.Add(t) called on a bare PriorityQueue.
PQAdd ==
    /\ mode = "pq"
    /\ sent < MaxAdds
    /\ \E t \in NewTasks(sent + 1) : q' = PriorityQueueAdd(q, t)
    /\ sent' = sent + 1
    /\ UNCHANGED <<mode, cancelled, top, msPC, addCh, wakeupCh, wakeups, msWg,
                   msWaitRet, wpc, wtask, wg, registered, panicked,
                   poolWaitRet, srcClosed, started, finished, delivered,
                   sincePull, atCancel, atStop, stopCh, doneCh, returned,
                   woken, ret, pulled, atClose, late>>

\* TestPriorityQueue: q.Next() called on a bare PriorityQueue.
PQNext ==
    /\ mode = "pq"
    /\ ret' = PriorityQueueNext(q).task
    /\ q' = PriorityQueueNext(q).q
    /\ returned' = IF PriorityQueueNext(q).task = Nil THEN returned
                   ELSE returned \cup {PriorityQueueNext(q).task.id}
    /\ UNCHANGED <<mode, cancelled, sent, top, msPC, addCh, wakeupCh, wakeups,
                   msWg, msWaitRet, wpc, wtask, wg, registered, panicked,
                   poolWaitRet, srcClosed, started, finished, delivered,
                   sincePull, atCancel, atStop, stopCh, doneCh, woken, pulled,
                   atClose, late>>

\* The task the last q.Next() returned is passed back: q.Add(t), as the
\* managed goroutine does with its held task (part_007 116-117).
PQAddBack ==
    /\ mode = "pq"
    /\ ret # Nil
    /\ q' = PriorityQueueAdd(q, ret)
    /\ ret' = Nil
    /\ returned' = returned \ {ret.id}
    /\ UNCHANGED <<mode, cancelled, sent, top, msPC, addCh, wakeupCh, wakeups,
                   msWg, msWaitRet, wpc, wtask, wg, registered, panicked,
                   poolWaitRet, srcClosed, started, finished, delivered,
                   sincePull, atCancel, atStop, stopCh, doneCh, woken, pulled,
                   atClose, late>>

\* --------------------------------------------------------- specifications
\* The pool and its source; the environment leaves the add and wakeup
\* channels alone (it neither closes them nor sends a wake-up).
Next ==
    \/ NewAdd
    \/ Cancel
    \/ CloseSrc
    \/ MSWait
    \/ PoolWait
    \/ MSPull
    \/ MSAdd
    \/ MSCancel
    \/ MSDone
    \/ \E w \in Workers : MSDeliver(w)
    \/ \E w \in Workers : WorkerStop(w)
    \/ \E w \in Workers : RawSend(w)
    \/ \E w \in Workers : WorkerClosed(w)
    \/ \E w \in Workers : WorkerFinish(w)

Spec == Init /\ [][Next]_vars

\* The same, with an environment that also signals and closes the wakeup
\* channel and closes the add channel.
NextChannels ==
    \/ Next
    \/ CloseAdd
    \/ CloseWakeup
    \/ MSWakeup
    \/ MSWakeupClosed
    \/ MSAddClosed

SpecChannels == Init /\ [][NextChannels]_vars

\* A pool on a ManagedSource whose context is never cancelled (TestGoPool up
\* to its cancel()).  No goroutine terminates, so neither Wait returns.
InitManaged == Init /\ mode = "managed"

NextNoCancel ==
    \/ NewAdd
    \/ MSPull
    \/ MSAdd
    \/ \E w \in Workers : MSDeliver(w)
    \/ \E w \in Workers : WorkerFinish(w)

\* The Go scheduler runs every runnable goroutine, a send and a receive that
\* stay ready meet, and each Run returns.
FairNoCancel ==
    /\ WF_vars(MSPull)
    /\ WF_vars(MSAdd)
    /\ WF_vars(\E w \in Workers : MSDeliver(w))
    /\ \A w \in Workers : WF_vars(WorkerFinish(w))

SpecNoCancel == InitManaged /\ [][NextNoCancel]_vars /\ FairNoCancel

\* A PriorityQueue fresh from NewPriorityQueue, used directly.
InitPQ ==
    /\ InitCommon
    /\ mode = "pq"
    /\ msPC = "none"
    /\ msWg = 0
    /\ wpc = [w \in Workers |-> "done"]
    /\ registered = FALSE

NextPQ ==
    \/ PQAdd
    \/ PQNext

SpecPQ == InitPQ /\ [][NextPQ]_vars

\* A pool on a raw channel whose context is never cancelled and whose
\* channel may be closed (TestGoPoolInputSourceClosed).
InitRaw == Init /\ mode = "raw"

NextClosed ==
    \/ NewAdd
    \/ CloseSrc
    \/ PoolWait
    \/ \E w \in Workers : RawSend(w)
    \/ \E w \in Workers : WorkerClosed(w)
    \/ \E w \in Workers : WorkerFinish(w)

\* New runs on to its p.wg.Add, a worker at its select with the closed
\* channel ready takes that case, each Run returns, and a Wait whose counter
\* is zero returns.
FairClosed ==
    /\ WF_vars(NewAdd)
    /\ WF_vars(PoolWait)
    /\ \A w \in Workers : WF_vars(WorkerClosed(w))
    /\ \A w \in Workers : WF_vars(WorkerFinish(w))

SpecClosed == InitRaw /\ [][NextClosed]_vars /\ FairClosed

\* A ManagedSource whose Sourcer is also filled from outside and whose
\* wakeup channel is used.  The workers are the receivers on Source; their
\* Runs stay in progress, so each receives one task.
NextWakeup ==
    \/ Cancel
    \/ SideAdd
    \/ MSPull
    \/ MSWakeup
    \/ MSAdd
    \/ MSCancel
    \/ MSDone
    \/ \E w \in Workers : MSDeliver(w)

\* The managed goroutine, once past a case of its select, runs on to the
\* next select.
FairWakeup == WF_vars(MSPull)

SpecWakeup == InitManaged /\ [][NextWakeup]_vars /\ FairWakeup

\* A ManagedSource whose add and wakeup channels get closed (TestNewSource
\* closes both).  The workers are the receivers on Source; their Runs stay
\* in progress, so each receives one task.
NextClosing ==
    \/ Cancel
    \/ CloseAdd
    \/ CloseWakeup
    \/ MSWait
    \/ MSPull
    \/ MSWakeupClosed
    \/ MSAdd
    \/ MSAddClosed
    \/ MSCancel
    \/ MSDone
    \/ \E w \in Workers : MSDeliver(w)

SpecClosing == InitManaged /\ [][NextClosing]_vars

\* The stop-channel pool on a plain channel (TestGoPoolTaskStop,
\* TestGoPoolInputSourceClosed of that variant).
InitStop ==
    /\ InitCommon
    /\ mode = "stop"
    /\ msPC = "none"
    /\ msWg = 0
    /\ wpc = [w \in Workers |-> "wait"]
    /\ registered = FALSE

NextStop ==
    \/ NewAdd
    \/ StopClose
    \/ CloseSrc
    \/ PoolWait
    \/ \E w \in Workers : RawSend(w)
    \/ \E w \in Workers : WorkerStop(w)
    \/ \E w \in Workers : WorkerClosed(w)
    \/ \E w \in Workers : WorkerFinish(w)

\* New and Stop run on, each Run returns, and a worker that finds the stop
\* case ready again and again takes it: Go chooses among the ready cases of
\* a select at random.
FairStop ==
    /\ WF_vars(NewAdd)
    /\ WF_vars(PoolWait)
    /\ \A w \in Workers : WF_vars(WorkerFinish(w))
    /\ \A w \in Workers : SF_vars(WorkerStop(w))

SpecStop == InitStop /\ [][NextStop]_vars /\ FairStop

\* A pool on a plain channel whose context gets cancelled, with the
\* fairness of FairStop.
NextCancelRaw ==
    \/ NewAdd
    \/ Cancel
    \/ PoolWait
    \/ \E w \in Workers : RawSend(w)
    \/ \E w \in Workers : WorkerStop(w)
    \/ \E w \in Workers : WorkerFinish(w)

SpecCancelRaw == InitRaw /\ [][NextCancelRaw]_vars /\ FairStop

\* NewSource with its producers, the receivers of its channel and the
\* caller that stops it (TestNewSource).
InitSource ==
    /\ InitCommon
    /\ mode = "source"
    /\ msPC = "pull"
    /\ msWg = 0
    /\ wpc = [w \in Workers |-> "wait"]
    /\ registered = FALSE

NextSource ==
    \/ StopSend
    \/ SourceWait
    \/ MSPull
    \/ MSWakeup
    \/ MSAdd
    \/ SourceStop
    \/ SourceClose
    \/ \E w \in Workers : MSDeliver(w)

SpecSource == InitSource /\ [][NextSource]_vars

\* The ManagedSource on its own while it is shut down, its channels open or
\* closed, with a producer that may go on sending (nil tasks) for ever and
\* one receiver, worker 1.
NextShutdown ==
    \/ Cancel
    \/ CloseAdd
    \/ CloseWakeup
    \/ MSWait
    \/ MSPull
    \/ MSWakeupClosed
    \/ MSAdd
    \/ MSAddNil
    \/ MSAddClosed
    \/ MSCancel
    \/ MSDone
    \/ MSDeliver(1)

\* The goroutine runs on through Sourcer.Next, through wg.Done() and
\* return, and the caller through Wait.  Nothing is assumed here of the
\* choice the select makes.
FairShutdown ==
    /\ WF_vars(MSPull)
    /\ WF_vars(MSDone)
    /\ WF_vars(MSWait)

SpecShutdown == InitManaged /\ [][NextShutdown]_vars /\ FairShutdown

\* The ManagedSource with producers, receivers, wake-up signals and the
\* closing of its wake-up and add channels (TestNewSource up to its
\* cancel()).
NextSignals ==
    \/ CloseAdd
    \/ CloseWakeup
    \/ MSPull
    \/ MSWakeup
    \/ MSWakeupClosed
    \/ MSAdd
    \/ MSAddClosed
    \/ \E w \in Workers : MSDeliver(w)

SpecSignals == InitManaged /\ [][NextSignals]_vars

\* A PriorityQueue used directly, by a caller that also passes back what
\* Next returned.
NextRequeue ==
    \/ PQAdd
    \/ PQNext
    \/ PQAddBack

SpecRequeue == InitPQ /\ [][NextRequeue]_vars

\* ------------------------------------------------------------ vocabulary
Range(f) == {f[i] : i \in DOMAIN f}

\* The ids of the tasks stored in the Sourcer.
QueueIds == {q[i].id : i \in DOMAIN q}

\* How many entries of the Sourcer hold task t.
InQueue(t) == Cardinality({i \in DOMAIN q : q[i].id = t})

\* The tasks the ManagedSource holds: in the Sourcer or in its slot.
Held == Range(q) \cup (IF top = Nil THEN {} ELSE {top})

\* The priority with which the ManagedSource holds task n (-1: not held).
HeldPrio(n) ==
    IF \E t \in Held : t.id = n THEN (CHOOSE t \in Held : t.id = n).p ELSE -1

PoolTerminated == \A w \in Workers : wpc[w] = "done"

RunOnce(t) == started[t] = 1 /\ finished[t] = 1

\* ------------------------------------------------------------------- C1
\* C1: once the pool's workers and the ManagedSource goroutine have all
\* terminated, every task whose send on the add channel completed has either
\* been run exactly once (and is not in the Sourcer) or has never been run
\* and is stored exactly once in the Sourcer.
C1_TaskConservation ==
    (mode = "managed" /\ PoolTerminated /\ msPC = "done") =>
        \A t \in 1..sent :
            \/ RunOnce(t) /\ InQueue(t) = 0
            \/ started[t] = 0 /\ finished[t] = 0 /\ InQueue(t) = 1

\* Both outcomes occur in one run: a task that was run and one that was kept.
C1_Witness ==
    /\ mode = "managed" /\ PoolTerminated /\ msPC = "done" /\ cancelled
    /\ \E t \in 1..sent : RunOnce(t)
    /\ \E t \in 1..sent : InQueue(t) = 1

\* ------------------------------------------------------------------- C2
\* C2: the held task is back in the Sourcer before the barrier is released:
\* once the ManagedSource's barrier is down, and so whenever Wait() has
\* returned, the slot is empty and the Sourcer stores exactly the tasks that
\* were added and not sent on Source, the one held at cancellation included
\* (TestNewSource: 3 added, 1 delivered, length 2).
C2_RequeuedBeforeWaitReturns ==
    /\ msWaitRet => msWg = 0
    /\ (mode = "managed" /\ msWg = 0) =>
           /\ top = Nil
           /\ QueueIds = (1..sent) \ Range(delivered)
           /\ Len(q) = sent - Len(delivered)

\* TestNewSource: three added, one delivered, Wait returned, two stored.
C2_Witness ==
    msWaitRet /\ sent = 3 /\ Len(delivered) = 1 /\ Len(q) = 2

\* ------------------------------------------------------------------- C3
\* C3: GoPool.Wait() has returned only in states where every worker has
\* terminated; none is at its select or inside a Run.
C3_WaitAfterAllWorkers ==
    poolWaitRet => \A w \in Workers : wpc[w] = "done"

\* Wait has returned on a pool that ran a task.
C3_Witness ==
    poolWaitRet /\ \E t \in TaskIds : RunOnce(t)

\* ------------------------------------------------------------------- C4
\* Every task sent so far has run to completion.
AllSentFinished == \A t \in 1..sent : finished[t] = 1

\* C4: without cancellation no task's Run is ever entered twice, and again
\* and again every task sent so far has run to completion; sends and
\* completions are never undone, so every task sent is eventually run.
C4_AllRunExactlyOnce ==
    /\ [](\A t \in TaskIds : started[t] <= 1)
    /\ []<>AllSentFinished

\* All NumTasks tasks were sent and each has run once.
C4_Witness ==
    ~cancelled /\ sent = NumTasks /\ \A t \in TaskIds : RunOnce(t)

\* ------------------------------------------------------------------- C5
\* C5: after cancellation GoPool.Wait() has not returned while a Run is in
\* flight, and the barrier still counts every worker that is inside a Run.
C5_WaitBlocksOnInFlight ==
    cancelled =>
        /\ poolWaitRet => \A t \in TaskIds : started[t] = finished[t]
        /\ registered /\ ~panicked =>
               wg >= Cardinality({w \in Workers : wpc[w] = "run"})

\* Cancelled, one worker already gone, another still inside a Run.
C5_Witness ==
    /\ cancelled /\ registered /\ ~poolWaitRet
    /\ \E w \in Workers : wpc[w] = "run"
    /\ \E w \in Workers : wpc[w] = "done"

\* ------------------------------------------------------------------- C6
\* C6: once the cancellation signal has fired no worker takes a task from
\* the inbound channel (no worker goes from its select into a Run).
C6_NoTaskAfterCancel ==
    [][cancelled => \A w \in Workers : ~(wpc[w] = "wait" /\ wpc'[w] = "run")]_vars

C8_NextReturnsMaximum ==
    [][Len(q') < Len(q) =>
          /\ ret' \in Range(q)
          /\ \A i \in DOMAIN q : ret'.p >= q[i].p]_vars

\* Next returned the priority-10 task while a priority-5 and a priority-7
\* task stay stored.
C8_Witness ==
    /\ mode = "pq" /\ ret.p = 10
    /\ \E i \in DOMAIN q : q[i].p = 5
    /\ \E i \in DOMAIN q : q[i].p = 7

\* ------------------------------------------------------------------- C9
\* C9 as claimed: whenever the ManagedSource offers its held task, that
\* task's priority is at least the priority of every task in the Sourcer.
C9_OfferedIsMaximum ==
    (mode = "managed" /\ msPC = "select" /\ top # Nil) =>
        \A i \in DOMAIN q : top.p >= q[i].p

\* C9 amended: whenever the ManagedSource offers its held task, that task's
\* priority is at least the priority of every task in the Sourcer that was
\* already stored when the held task was pulled; tasks added after the pull
\* are not compared.
C9_OfferedWasMaximumAtPull ==
    (mode = "managed" /\ msPC = "select" /\ top # Nil) =>
        \A i \in DOMAIN q : q[i].id \notin sincePull => top.p >= q[i].p

\* An offered task that was pulled ahead of a lower task, which is still
\* stored.
C9_Witness ==
    /\ mode = "managed" /\ msPC = "select" /\ top # Nil
    /\ \E i \in DOMAIN q : q[i].id \notin sincePull /\ q[i].p < top.p

\* ------------------------------------------------------------------ C10
\* TestNewSource's adds: tasks 1, 2, 3 of priority 5, 7, 10 are held by the
\* running ManagedSource and nothing has been received on Source yet.
C10_Scenario ==
    /\ mode = "managed" /\ msPC \in {"pull", "select"}
    /\ delivered = <<>> /\ sent >= 3
    /\ HeldPrio(1) = 5 /\ HeldPrio(2) = 7 /\ HeldPrio(3) = 10

\* C10: in that scenario the slot holds the priority-5 task (it is not
\* displaced) and the first receive on Source gets it; and the pull that
\* follows this receive, with the priority-7 and priority-10 tasks stored,
\* takes the priority-10 task into the slot.
C10_HeldTaskNotDisplaced ==
    [][/\ C10_Scenario => (top.id = 1 /\ top.p = 5)
       /\ (C10_Scenario /\ delivered' # delivered) => delivered' = <<1>>
       /\ (/\ delivered = <<1>> /\ msPC = "pull" /\ top = Nil /\ Len(q) = 2
           /\ HeldPrio(2) = 7 /\ HeldPrio(3) = 10 /\ msPC' = "select")
          => (top'.id = 3 /\ top'.p = 10)]_vars

\* The priority-5 task was received first, the priority-10 task is in the
\* slot and the priority-7 task is stored.
C10_Witness ==
    /\ mode = "managed" /\ delivered = <<1>> /\ sent = 3 /\ msPC = "select"
    /\ top.id = 3 /\ top.p = 10
    /\ Len(q) = 1 /\ q[1].id = 2 /\ q[1].p = 7
    /\ started[1] = 1

\* ------------------------------------------------------------------ C11
\* C11: a pool whose inbound channel is closed, and whose context is never
\* cancelled, leads to GoPool.Wait() returning (every worker has observed the
\* closure, called p.wg.Done() and terminated).
C11_ClosedLeadsToWaitReturn ==
    srcClosed ~> (poolWaitRet /\ PoolTerminated)

\* The part of C11 that the code keeps: when no worker's p.wg.Done() comes
\* before New's p.wg.Add, the closure leads to Wait returning with every
\* worker terminated and the counter at zero.
ClosedLeadsToWaitReturnUnlessPanic ==
    ([]~panicked) => (srcClosed ~> (poolWaitRet /\ PoolTerminated /\ wg = 0))

Terminated == {w \in Workers : wpc[w] = "done"}

\* C13 as claimed: without cancellation, the workers that terminate after
\* close(src) are only those that were blocked on the channel when it was
\* closed; a worker that was inside a Run then is left running the pool.
C13_OnlyBlockedWorkersTerminate ==
    (srcClosed /\ ~cancelled) => Terminated \subseteq atClose

\* C13 amended: without cancellation a worker terminates only through the
\* closed-channel case of its select, so only once the channel is closed and
\* never from inside a Run: a worker that was inside a Run when the channel
\* was closed finishes that Run, returns to its select and then terminates
\* there like the workers that were blocked.  Once the channel is closed no
\* worker takes a task, and every worker at its select can take the closed
\* case: the closure stops all workers, not one.
C13_ClosureStopsEveryWorker ==
    [][\A w \in Workers :
          /\ (~cancelled' /\ wpc[w] # "done" /\ wpc'[w] = "done")
                 => (srcClosed /\ wpc[w] = "wait")
          /\ (wpc[w] = "run" /\ wpc'[w] # "run")
                 => (wpc'[w] = "wait"
                     /\ finished'[wtask[w].id] = finished[wtask[w].id] + 1)
          /\ srcClosed => ~(wpc[w] = "wait" /\ wpc'[w] = "run")
          /\ (srcClosed /\ ~panicked /\ wpc[w] = "wait")
                 => ENABLED WorkerClosed(w)]_vars

\* No cancellation: a worker that was inside a Run at close(src) has
\* finished its task and terminated, as has one that was blocked.
C13_Witness ==
    /\ srcClosed /\ ~cancelled /\ ~panicked
    /\ \E w \in Terminated : w \notin atClose
    /\ \E w \in Terminated : w \in atClose
    /\ \E t \in TaskIds : RunOnce(t)

\* ------------------------------------------------------------------ C14
\* C14: the managed goroutine leaves its loop only by the ctx.Done() case.
\* Whatever has been closed, and in whatever order, until cancellation it is
\* in its loop with its barrier up and Wait() blocked; it holds (offers) a
\* task whenever it waits with a non-empty Sourcer, and a waiting worker can
\* receive that task; and when it takes the ctx.Done() case it adds the held
\* task back, so that once it is gone the Sourcer stores every task that was
\* added and not delivered.
C14_OnlyCancellationTerminates ==
    [][/\ ~cancelled => (msPC \in {"pull", "select"} /\ msWg = 1 /\ ~msWaitRet)
       /\ (msPC' = "exit" /\ msPC # "exit") => cancelled
       /\ msWg' # msWg => (cancelled /\ msPC = "exit")
       /\ (msPC = "select" /\ Len(q) > 0) => top # Nil
       /\ (msPC = "select" /\ top # Nil /\ \E w \in Workers : wpc[w] = "wait")
              => ENABLED (\E w \in Workers : MSDeliver(w))
       /\ (msPC = "select" /\ msPC' = "exit" /\ top # Nil)
              => (Len(q') = Len(q) + 1 /\ top.id \in {q'[i].id : i \in DOMAIN q'})
       /\ msPC = "done" => (QueueIds = (1..sent) \ Range(delivered))]_vars

\* Both closures have been observed (add = nil, wakeup = nil); the goroutine
\* went on delivering, and on cancellation it has added the held task back.
C14_Witness ==
    /\ addCh = "nil" /\ wakeupCh = "nil" /\ cancelled
    /\ msPC = "exit" /\ top # Nil /\ top.id \in QueueIds
    /\ Len(delivered) >= 1 /\ Len(q) >= 2

\* ------------------------------------------------------------------ C15
\* C15: a receive on Source completes exactly when the managed goroutine
\* waits with a task in its slot.  Every delivery hands over the held task,
\* which is not nil; a worker of a managed pool enters a Run only by such a
\* delivery and never runs a nil task; while the goroutine waits with an
\* empty slot (Sourcer.Next returned nil) no receive can complete; and while
\* it waits with a held task any waiting worker can receive it.
C15_OffersIffHolding ==
    [][/\ delivered' # delivered =>
              /\ msPC = "select" /\ top # Nil
              /\ delivered' = Append(delivered, top.id)
       /\ \A w \in Workers :
              /\ wpc'[w] = "run" => wtask'[w] # Nil
              /\ (mode = "managed" /\ wpc[w] = "wait" /\ wpc'[w] = "run")
                     => (delivered' # delivered /\ wtask'[w] = top)
       /\ (mode = "managed" /\ msPC = "select" /\ top = Nil)
              => ~ENABLED (\E w \in Workers : MSDeliver(w))
       /\ (/\ mode = "managed" /\ msPC = "select" /\ top # Nil /\ ~panicked
           /\ \E w \in Workers : wpc[w] = "wait")
              => ENABLED (\E w \in Workers : MSDeliver(w))]_vars

\* The goroutine has delivered a task, found the Sourcer empty at its next
\* pull and waits with an empty slot while a worker waits on Source.
C15_Witness ==
    /\ mode = "managed" /\ msPC = "select" /\ top = Nil /\ q = <<>>
    /\ ~cancelled /\ ~panicked /\ Len(delivered) >= 1
    /\ \E w \in Workers : wpc[w] = "wait"

\* ------------------------------------------------------------------ C16
\* The managed goroutine waits with nothing held.
Idle == mode = "managed" /\ msPC = "select" /\ top = Nil

\* C16: the managed goroutine goes from its select back to the head of its
\* loop only after a wake-up, an add or a delivery, and only at the head of
\* the loop does it call Sourcer.Next: a task stored in the Sourcer while it
\* is idle is not picked up by any other step.  A received wake-up takes it
\* to the head of the loop, where with an empty slot and a non-empty Sourcer
\* it takes the Sourcer's maximum into the slot; and it never stays at the
\* head of the loop, so a task that is alone in the Sourcer after the wake-up
\* is eventually offered on Source.
C16_WakeupRepolls ==
    /\ [][/\ (msPC = "select" /\ msPC' = "pull") =>
                 \/ wakeups' = wakeups + 1
                 \/ (sent' = sent + 1 /\ Len(q') = Len(q) + 1)
                 \/ delivered' # delivered
          /\ (Idle /\ msPC' # "pull") => top' = Nil
          /\ (top = Nil /\ top' # Nil) => (msPC = "pull" /\ msPC' = "select")
          /\ wakeups' # wakeups => (wakeups' = wakeups + 1 /\ msPC' = "pull")
          /\ msPC = "pull" => (msPC' \in {"pull", "select"} /\ q' \in {q, Pull(q, top).q})
          /\ (msPC = "pull" /\ top = Nil /\ Len(q) > 0 /\ msPC' = "select") =>
                 /\ \E i \in DOMAIN q : top' = q[i]
                 /\ \A i \in DOMAIN q : top'.p >= q[i].p]_vars
    /\ []<>(msPC # "pull")

\* The only task there has been was stored in the Sourcer from outside while
\* the goroutine was idle; a wake-up was received and the task is offered.
C16_Witness ==
    /\ mode = "managed" /\ sent = 1 /\ wakeups = 1 /\ delivered = <<>>
    /\ msPC = "select" /\ top.id = 1 /\ top.p = SidePriority /\ q = <<>>

IsPrefix(s, t) == Len(s) <= Len(t) /\ SubSeq(t, 1, Len(s)) = s

\* C18: the tasks sent on Source are, in order, the tasks Sourcer.Next
\* returned: the sequence delivered is a prefix of the sequence pulled, and
\* at most the last task pulled (the one held) is not yet delivered.
C18_DeliveredInPullOrder ==
    /\ IsPrefix(delivered, pulled)
    /\ Len(pulled) <= Len(delivered) + 1

\* Tasks of priority 5, 7, 10 were added in this order and all delivered: in
\* the order 1, 3, 2 in which Next returned them, not the order of the adds.
C18_Witness ==
    /\ mode = "managed" /\ sent = 3
    /\ pulled = <<1, 3, 2>> /\ delivered = <<1, 3, 2>>

\* ------------------------------------------------------------------ C19
\* 1 if b, else 0.
Count(b) == IF b THEN 1 ELSE 0

\* Task t is in the slot of the managed goroutine.  After the goroutine has
\* left its loop (s.Add(top) done, return pending) top is a dead local and
\* no slot.
InSlot(t) == msPC \in {"pull", "select"} /\ top.id = t

\* The workers inside a Run of task t.
Running(t) == {w \in Workers : wpc[w] = "run" /\ wtask[w].id = t}

\* The number of places task t is in: with its producer (its send has not
\* completed), in the Sourcer (once per entry), in the slot, with each
\* worker running it, finished.
Places(t) ==
    Count(t > sent) + InQueue(t) + Count(InSlot(t)) + Cardinality(Running(t))
        + Count(finished[t] > 0)

\* C19: every task is in exactly one place; the slot holds at most one task
\* (top is one value) and a task in the Sourcer is neither held nor running.
C19_SingleOwnership ==
    /\ \A t \in TaskIds : Places(t) = 1
    /\ \A t \in TaskIds : finished[t] <= 1 /\ started[t] <= 1
    /\ \A w \in Workers : wpc[w] # "run" => wtask[w] = Nil

\* Three places taken at once: one task in the Sourcer, another in the slot
\* and a third being run.
C19_Witness ==
    /\ mode = "managed" /\ msPC = "select" /\ top # Nil
    /\ \E t \in TaskIds : InQueue(t) = 1
    /\ \E t \in TaskIds : Cardinality(Running(t)) = 1

\* ------------------------------------------------------------------ C20
\* The array h is a binary max-heap: Go index i has its parent at
\* (i - 1) / 2, which for the sequence position n = i + 1 is n \div 2.
IsMaxHeap(h) == \A n \in 2..Len(h) : h[n].p <= h[n \div 2].p

\* C20: after every Add and every Next on a queue that started empty the
\* array is a max-heap: no element's priority exceeds its parent's.
C20_HeapProperty ==
    IsMaxHeap(q)

\* A queue of four tasks with three different priorities, left by Adds and
\* a Next that returned a task.
C20_Witness ==
    /\ mode = "pq" /\ ret # Nil /\ Len(q) = 4
    /\ Cardinality({q[i].p : i \in DOMAIN q}) >= 3
    /\ q[1].p > q[4].p

\* ------------------------------------------------------------------ C21
\* C21: a call of PriorityQueue.Next on an empty queue (a step that adds
\* nothing) returns nil and leaves the queue empty, whether the queue is
\* fresh or was filled and emptied again; on a non-empty queue Next does not
\* return nil.
C21_NextOnEmptyIsNil ==
    /\ [](q = <<>> => PriorityQueueNext(q) = [task |-> Nil, q |-> <<>>])
    /\ [][sent' = sent =>
             /\ q = <<>> => (ret' = Nil /\ q' = <<>>)
             /\ q # <<>> => (ret' # Nil /\ Len(q') = Len(q) - 1)]_vars

\* Two tasks were added and taken back out, and a further Next returned nil.
C21_Witness ==
    mode = "pq" /\ sent >= 2 /\ q = <<>> /\ ret = Nil

\* ------------------------------------------------------------------ C22
\* What PriorityQueue.Add has to store for task t.
Stored(t) == IF t.pt THEN t ELSE [id |-> t.id, pt |-> TRUE, p |-> 0]

\* How many entries of h equal e.
Copies(h, e) == Cardinality({i \in DOMAIN h : h[i] = e})

\* C22: from every queue reached and for every task a caller may pass, Add
\* leaves the entries that were stored and adds one entry: the task itself
\* with its own priority when it is a PriorityTask, and otherwise a
\* PriorityTask of priority 0 for that task.
C22_AddKeepsPriority ==
    \A t \in NewTasks(sent + 1) :
        LET h == PriorityQueueAdd(q, t) IN
        /\ Len(h) = Len(q) + 1
        /\ \A e \in Range(h) \cup Range(q) :
               Copies(h, e) = Copies(q, e) + Count(e = Stored(t))

\* A bare task is stored with priority 0 next to a PriorityTask stored with
\* its priority 10.
C22_Witness ==
    /\ mode = "pq"
    /\ \E i \in DOMAIN q : q[i].p = 0 /\ q[i].pt
    /\ \E i \in DOMAIN q : q[i].p = 10 /\ q[i].pt

\* ------------------------------------------------------------------ C23
\* C23: once the managed goroutine has completed one case of its select
\* other than ctx.Done() after cancel(), it completes no further one: from
\* its next select it does not go back to the head of the loop.
C23_OneMoreCycleAtMost ==
    [][(late /\ msPC = "select") => msPC' # "pull"]_vars

\* ------------------------------------------------------------------ C24
\* C24: once cancel() has been called, every worker terminates and
\* GoPool.Wait() returns, each Run returning and producers standing ready
\* on the plain channel src.
C24_CancelLeadsToWaitReturn ==
    cancelled ~> (PoolTerminated /\ poolWaitRet)

\* The same, in the behaviours where the WaitGroup does not panic.
CancelLeadsToWaitReturnUnlessPanic ==
    ([]~panicked) => (cancelled ~> (PoolTerminated /\ poolWaitRet /\ wg = 0))

\* ------------------------------------------------------------------ C25
\* C25: in the context pool a worker terminates only from its select and
\* only with ctx.Done() closed or src closed; a worker that runs a task can
\* finish it, and finishing it, with an error or without, takes the worker
\* back to its select and leaves the WaitGroup alone; the WaitGroup counter
\* goes down only by one, with a worker that terminates from its select.
C25_OnlySignalOrClosureEndsWorker ==
    /\ [](\A w \in Workers :
              (wpc[w] = "run" /\ ~panicked) => ENABLED WorkerFinish(w))
    /\ [][\A w \in Workers :
              /\ (wpc[w] # "done" /\ wpc'[w] = "done") =>
                     /\ wpc[w] = "wait"
                     /\ cancelled \/ srcClosed
                     /\ wg' = wg - 1
              /\ (wpc[w] = "run" /\ wpc'[w] # "run") =>
                     /\ wpc'[w] = "wait"
                     /\ wg' = wg
                     /\ finished'[wtask[w].id] = finished[wtask[w].id] + 1]_vars
    /\ [][wg' < wg =>
              \E w \in Workers : wpc[w] = "wait" /\ wpc'[w] = "done"]_vars

\* Every task has been run and neither signal has been given: both workers
\* are back at their select and registered.
C25_Witness ==
    /\ registered
    /\ ~cancelled
    /\ ~srcClosed
    /\ \A t \in TaskIds : RunOnce(t)
    /\ \A w \in Workers : wpc[w] = "wait"
    /\ wg = NumWorkers

\* ------------------------------------------------------------------ C26
\* C26: in the stop-channel pool, a Run that returns an error ends its
\* worker and only it, with one p.wg.Done(), and the program goes on: a
\* worker at its select still receives a task a producer offers; once New
\* has returned the counter is the number of workers that have not
\* terminated, and once Stop() has been called it returns.
C26_ErrorEndsOnlyItsWorker ==
    /\ [][\A w \in Workers :
              (wpc[w] = "run" /\ wpc'[w] = "done") =>
                  /\ wg' = wg - 1
                  /\ \A v \in Workers \ {w} : wpc'[v] = wpc[v]
                  /\ ~panicked']_vars
    /\ [](\A v \in Workers :
              ((\E w \in Workers : wpc[w] = "done")
                   /\ wpc[v] = "wait" /\ sent < NumTasks /\ ~srcClosed) =>
                  ENABLED RawSend(v))
    /\ [](registered =>
              wg = Cardinality({w \in Workers : wpc[w] # "done"}))
    /\ (mode = "stop" /\ cancelled) ~> poolWaitRet

\* The same for the errors returned once New has returned.
ErrorEndsOnlyItsWorkerOnceRegistered ==
    /\ [][\A w \in Workers :
              (registered /\ wpc[w] = "run" /\ wpc'[w] = "done") =>
                  /\ wg' = wg - 1
                  /\ \A v \in Workers \ {w} : wpc'[v] = wpc[v]
                  /\ ~panicked']_vars
    /\ [](\A v \in Workers :
              (registered /\ wpc[v] = "wait" /\ sent < NumTasks
                   /\ ~srcClosed) =>
                  ENABLED RawSend(v))
    /\ [](registered =>
              wg = Cardinality({w \in Workers : wpc[w] # "done"}))
    /\ (mode = "stop" /\ cancelled) ~> poolWaitRet

\* ------------------------------------------------------------------ C27
\* C27: in the stop-channel pool, once Stop() has closed p.stop every worker
\* at its select can take the stop case, Stop() cannot return while a
\* worker is left, and when it has returned every worker has terminated and
\* every task that was running at the call, and every task started at all,
\* has finished.
C27_StopReturnsAfterAllDone ==
    /\ cancelled =>
           \A w \in Workers : wpc[w] = "wait" => ENABLED WorkerStop(w)
    /\ (cancelled /\ ~PoolTerminated) => (~poolWaitRet /\ ~ENABLED PoolWait)
    /\ poolWaitRet =>
           /\ cancelled
           /\ PoolTerminated
           /\ wg = 0
           /\ \A t \in atStop : finished[t] = 1
           /\ \A t \in TaskIds : finished[t] = started[t]
           /\ \A w \in Workers : wtask[w] = Nil

\* Stop() was called with a task running and has returned, one worker
\* having been ended before by the error of its task.
C27_Witness ==
    /\ mode = "stop"
    /\ poolWaitRet
    /\ atStop # {}
    /\ \E t \in TaskIds : t \notin atStop /\ finished[t] = 1

\* ------------------------------------------------------------------ C28
\* C28: in NewSource the channel sent on stop is closed only by the
\* goroutine that received it and after its cleanup: at the close the task
\* it held is stored in the Sourcer, once the channel is closed every task
\* added and not delivered is stored in the Sourcer exactly once, and the
\* Sourcer is not touched again.
C28_ClosedAfterCleanup ==
    /\ [](doneCh = "closed" =>
              /\ stopCh = "received"
              /\ msPC = "done"
              /\ \A t \in 1..sent : InQueue(t) = Count(t \notin Range(delivered)))
    /\ [][(doneCh = "open" /\ doneCh' = "closed") =>
              /\ stopCh = "received"
              /\ msPC = "exit"
              /\ top # Nil => InQueue(top.id) = 1
              /\ q' = q]_vars
    /\ [][doneCh = "closed" => (q' = q /\ top' = top /\ msPC' = msPC)]_vars

\* TestNewSource: of three tasks added one was delivered, one was held and
\* one stored when the goroutine received the stop; "<-done" has returned and
\* the Sourcer stores two tasks.
C28_Witness ==
    /\ mode = "source"
    /\ msWaitRet
    /\ doneCh = "closed"
    /\ sent = NumTasks
    /\ Len(delivered) = 1
    /\ Len(pulled) = 2
    /\ Len(q) = NumTasks - 1

\* ------------------------------------------------------------------ C29
\* C29: the WaitGroup of the pool never goes below zero and, once New has
\* returned, counts the workers that have not terminated.
C29_BarrierCountsLiveWorkers ==
    /\ wg >= 0
    /\ ~panicked
    /\ registered => wg = Cardinality({w \in Workers : wpc[w] # "done"})

\* The same, once New has returned without a panic.
BarrierCountsLiveWorkersOnceRegistered ==
    registered =>
        /\ ~panicked
        /\ wg = Cardinality({w \in Workers : wpc[w] # "done"})

\* ------------------------------------------------------------------ C30
\* The ManagedSource has shut down: the goroutine has returned, its
\* WaitGroup is released and Wait has returned.
ShutDown == msPC = "done" /\ msWg = 0 /\ msWaitRet

\* C30 as stated: with weak fairness of the ctx.Done() case of the select,
\* cancel() leads to the shutdown of the ManagedSource.
C30_WeakFairnessShutsDown ==
    WF_vars(MSCancel) => (cancelled ~> ShutDown)

\* C30, amended: with strong fairness of the ctx.Done() case (the case is
\* taken if it is ready at infinitely many selects), cancel() leads to the
\* shutdown of the ManagedSource, whatever the add and wake-up channels, the
\* receivers and the Sourcer are doing; and the goroutine returns only
\* through that case.
C30_StrongFairnessShutsDown ==
    /\ SF_vars(MSCancel) => (cancelled ~> ShutDown)
    /\ [][(msPC # "exit" /\ msPC' = "exit") =>
              (cancelled /\ msPC = "select")]_vars

\* cancel() found the add and wake-up channels closed and a task held; the
\* ManagedSource has shut down with that task back in the Sourcer.
C30_Witness ==
    /\ mode = "managed"
    /\ ShutDown
    /\ addCh = "closed"
    /\ wakeupCh = "closed"
    /\ late
    /\ q # <<>>

\* ------------------------------------------------------------------ C31
RECURSIVE SumTo(_, _)
\* f[1] + ... + f[n]
SumTo(f, n) == IF n = 0 THEN 0 ELSE f[n] + SumTo(f, n - 1)

\* The number of Runs entered and not yet returned.
InProgress == SumTo(started, NumTasks) - SumTo(finished, NumTasks)

\* C31: the Runs in progress are at most NumWorkers, one for each worker
\* that is inside Run and none for the others; a worker takes a task only
\* at its select, with no Run of its own in progress.
C31_AtMostOneRunPerWorker ==
    /\ [](/\ InProgress <= NumWorkers
          /\ InProgress = Cardinality({w \in Workers : wpc[w] = "run"})
          /\ \A w \in Workers : wpc[w] = "run" <=> wtask[w] # Nil)
    /\ [][\A w \in Workers :
              (wtask'[w] # wtask[w] /\ wtask'[w] # Nil) =>
                  /\ wpc[w] = "wait"
                  /\ wtask[w] = Nil
                  /\ started'[wtask'[w].id] = started[wtask'[w].id] + 1]_vars

\* Every worker is inside a Run while the ManagedSource offers a further
\* task, which no worker takes.
C31_Witness ==
    /\ mode = "managed"
    /\ InProgress = NumWorkers
    /\ \A w \in Workers : wpc[w] = "run"
    /\ msPC = "select"
    /\ top # Nil
    /\ started[top.id] = 0

\* ------------------------------------------------------------------ C32
\* C32: the step in which a producer's send on the add channel completes
\* is a step of the managed goroutine from its select, cancel() called or
\* not; after it the Sourcer stores what it stored before and the task
\* received, with its own priority (0 for a bare task), and the slot is as it
\* was.  The step that finds the add channel closed leaves the Sourcer and
\* the slot as they were, and so does the receipt of a nil task.
C32_AddBranchFrame ==
    /\ [][sent' = sent + 1 =>
              /\ msPC = "select" /\ msPC' = "pull"
              /\ top' = top
              /\ Len(q') = Len(q) + 1
              /\ \E t \in NewTasks(sent + 1) :
                     \A e \in Range(q') \cup Range(q) :
                         Copies(q', e) = Copies(q, e) + Count(e = Stored(t))]_vars
    /\ [][addCh' # addCh /\ addCh = "closed" =>
              /\ msPC = "select"
              /\ addCh' = "nil"
              /\ q' = q /\ top' = top /\ sent' = sent]_vars
    /\ [][(msPC = "select" /\ msPC' = "pull" /\ sent' = sent
               /\ delivered' = delivered) =>
              (q' = q /\ top' = top)]_vars

\* A task was received and stored after cancel(), next to a held task, and
\* the goroutine has since found the add channel closed.
C32_Witness ==
    /\ mode = "managed"
    /\ late
    /\ atCancel = "unsent"
    /\ sent = NumTasks
    /\ addCh = "nil"
    /\ top # Nil
    /\ Len(q) = NumTasks - 1

\* ------------------------------------------------------------------ C33
\* C33: on a ManagedSource a send on the add channel completes only in a
\* step of the managed goroutine from its select, and so does a receive on
\* its Source channel; once the goroutine has left its loop neither can
\* complete, and a task whose send has not completed is nowhere in the
\* ManagedSource or the pool.
C33_NoHandOffWithoutTheGoroutine ==
    /\ [][(mode = "managed" /\ (sent' # sent \/ delivered' # delivered)) =>
              (msPC = "select" /\ msPC' = "pull")]_vars
    /\ [](msPC \in {"exit", "done"} =>
              /\ ~ENABLED MSAdd
              /\ \A w \in Workers : ~ENABLED MSDeliver(w))
    /\ [](mode = "managed" =>
              \A t \in TaskIds :
                  t > sent =>
                      /\ InQueue(t) = 0
                      /\ ~InSlot(t)
                      /\ started[t] = 0
                      /\ \A w \in Workers : wtask[w].id # t)

\* The goroutine has returned while a producer still stands in its send and
\* a worker in its receive.
C33_Witness ==
    /\ mode = "managed"
    /\ msPC = "done"
    /\ msWaitRet
    /\ sent < NumTasks
    /\ sent > 0
    /\ \E w \in Workers : wpc[w] = "wait"

\* ------------------------------------------------------------------ C34
\* The steps of the managed goroutine.
MSStep ==
    \/ MSPull
    \/ MSWakeup
    \/ MSWakeupClosed
    \/ MSAdd
    \/ MSAddClosed
    \/ \E w \in Workers : MSDeliver(w)

\* Closures are observed once and do not make the loop spin: a channel
\* variable set to nil stays nil, with it neither case of that channel can be
\* taken, every round of the loop has exactly one cause (a wake-up signal, a
\* task added, a task delivered, or the first sight of a closed channel),
\* and with both channels nil and nothing to offer the goroutine stands
\* still.  A wake-up signal is received from the open channel only and
\* takes the goroutine to the head of the loop, once.
ClosureObservedOnce ==
    /\ [][/\ wakeupCh = "nil" => wakeupCh' = "nil"
          /\ addCh = "nil" => addCh' = "nil"
          /\ (msPC = "select" /\ msPC' = "pull") =>
                 Count(wakeups' = wakeups + 1) + Count(sent' = sent + 1)
                     + Count(delivered' # delivered)
                     + Count(wakeupCh = "closed" /\ wakeupCh' = "nil")
                     + Count(addCh = "closed" /\ addCh' = "nil") = 1
          /\ wakeups' # wakeups =>
                 /\ wakeups' = wakeups + 1
                 /\ wakeupCh = "open"
                 /\ msPC = "select" /\ msPC' = "pull"
                 /\ woken'
                 /\ q' = q /\ top' = top]_vars
    /\ [](/\ wakeupCh # "open" => ~ENABLED MSWakeup
          /\ wakeupCh = "nil" => ~ENABLED MSWakeupClosed
          /\ addCh # "open" => ~ENABLED MSAdd
          /\ addCh = "nil" => ~ENABLED MSAddClosed
          /\ (msPC = "select" /\ wakeupCh = "nil" /\ addCh = "nil"
                  /\ top = Nil) => ~ENABLED MSStep)

\* C34 as stated: closures are observed once, and the round of the loop
\* that follows a wake-up signal calls Sourcer.Next.
C34_WakeupCallsNext ==
    /\ ClosureObservedOnce
    /\ [][(woken /\ msPC' # msPC) =>
              /\ msPC = "pull" /\ msPC' = "select"
              /\ top' = PriorityQueueNext(q).task
              /\ q' = PriorityQueueNext(q).q]_vars

\* C34, amended: closures are observed once, and the round of the loop
\* that follows a wake-up signal calls Sourcer.Next once if the slot is empty
\* and leaves the Sourcer and the slot alone if a task is held.
C34_WakeupCallsNextIfEmpty ==
    /\ ClosureObservedOnce
    /\ [][(woken /\ msPC' # msPC) =>
              /\ msPC = "pull" /\ msPC' = "select"
              /\ ~woken'
              /\ IF top = Nil
                 THEN /\ top' = PriorityQueueNext(q).task
                      /\ q' = PriorityQueueNext(q).q
                 ELSE top' = top /\ q' = q]_vars

\* A wake-up signal was received while a task was held and another stored:
\* both are where they were; both channels have since been closed and the
\* closures observed.
C34_Witness ==
    /\ mode = "managed"
    /\ wakeups = 1
    /\ wakeupCh = "nil"
    /\ addCh = "nil"
    /\ msPC = "select"
    /\ top # Nil
    /\ q # <<>>
    /\ delivered = <<>>
    /\ sent = 2

\* ------------------------------------------------------------------ C35
RECURSIVE Drain(_)
\* The priorities of the tasks that successive calls of Next return, until
\* the queue is empty.
Drain(h) ==
    IF h = <<>> THEN <<>>
    ELSE LET r == PriorityQueueNext(h) IN <<r.task.p>> \o Drain(r.q)

\* The queue after q.Add(q.Next()).
RoundTrip(h) ==
    LET r == PriorityQueueNext(h) IN PriorityQueueAdd(r.q, r.task)

\* C35: Next returns an entry of the queue, with the priority it is stored
\* with, and takes it out; Add of what Next returned stores that entry
\* again, as it was; so from every non-empty queue reached, Next followed by
\* Add of its result gives a queue with the same entries, each as many times
\* as before, that is a heap again and that successive Next calls empty in
\* the same order of priorities.
C35_RequeueRoundTrip ==
    /\ [](q # <<>> =>
              LET h == RoundTrip(q) IN
              /\ \A e \in Range(q) \cup Range(h) : Copies(h, e) = Copies(q, e)
              /\ IsMaxHeap(h)
              /\ Drain(h) = Drain(q))
    /\ [][(ret' # Nil /\ ret' # ret) =>
              \A e \in Range(q) :
                  Copies(q, e) = Copies(q', e) + Count(e = ret')]_vars
    /\ [][(ret # Nil /\ ret' = Nil /\ q' # q) =>
              \A e \in Range(q') :
                  Copies(q', e) = Copies(q, e) + Count(e = ret)]_vars

\* Next has returned the task of priority 10, which the caller holds to
\* pass it back, from a queue that also stored a task of priority 5 and a
\* bare task, stored with priority 0.
C35_Witness ==
    /\ mode = "pq"
    /\ sent = 3
    /\ ret # Nil
    /\ ret.p = 10
    /\ Drain(q) = <<5, 0>>
    /\ Drain(PriorityQueueAdd(q, ret)) = <<10, 5, 0>>

\* ------------------------------------------------------------------ C36
\* C36: in every sequence of Add and Next calls on a PriorityQueue, the
\* queue stores each task added and not yet returned once and nothing else,
\* and as many entries as there were Adds less the Nexts that returned a
\* task; a Next on a non-empty queue returns one of its entries, never
\* returned before, and takes it out; an Add stores one entry more, whatever
\* the length of the queue.
C36_ElementConservation ==
    /\ [](/\ returned \subseteq 1..sent
          /\ QueueIds = (1..sent) \ returned
          /\ \A t \in 1..sent : InQueue(t) = Count(t \notin returned)
          /\ Len(q) = sent - Cardinality(returned)
          /\ \A t \in NewTasks(sent + 1) :
                 Len(PriorityQueueAdd(q, t)) = Len(q) + 1)
    /\ [][sent' = sent =>
              IF q = <<>>
              THEN ret' = Nil /\ q' = <<>> /\ returned' = returned
              ELSE /\ \E i \in DOMAIN q : ret' = q[i]
                   /\ ret'.id \notin returned
                   /\ returned' = returned \cup {ret'.id}
                   /\ \A i \in DOMAIN q' : q'[i].id # ret'.id
                   /\ Len(q') = Len(q) - 1]_vars
    /\ [][sent' # sent =>
              /\ sent' = sent + 1
              /\ Len(q') = Len(q) + 1
              /\ Cardinality({i \in DOMAIN q' : q'[i].id = sent'}) = 1
              /\ returned' = returned]_vars

\* MaxAdds tasks were added; two have been returned, the first task added
\* among them, and the others are stored.
C36_Witness ==
    /\ mode = "pq"
    /\ sent = MaxAdds
    /\ Cardinality(returned) = 2
    /\ Len(q) = MaxAdds - 2
    /\ 1 \in returned
    /\ ret # Nil

====
